---- MODULE Spec2Model ----
(***************************************************************************)
(* Model of the DHCP server of src/main.rs: the free pool (a Vec used as a *)
(* stack), the lease table (a HashMap keyed by hardware address), the      *)
(* lazy expiry sweep, and the run loop that dispatches on the first byte   *)
(* of each datagram.                                                       *)
(*                                                                         *)
(* An IPv4 address 192.168.1.i is represented by its last octet i; a       *)
(* hardware address [u8; 6] by a small integer.  SystemTime is a count of  *)
(* seconds.                                                                *)
(***************************************************************************)
EXTENDS Integers, Sequences, FiniteSets, TLC

\* ---------------------------------------------------------------- bounds
\* Number of addresses pushed by DHCPServer::new (the source pushes
\* 100..200, i.e. 100 addresses; the model keeps the first address and
\* bounds the count so that exhaustion is reachable).
PoolSize == 2
\* Number of distinct hardware addresses that send datagrams.
NumClients == 3
\* The clock is observed at the instants 0, 1, D, D + 1, 2D, 2D + 1, ...
\* (D the lease duration), the first MaxInstant + 1 of them.
MaxInstant == 3

\* ------------------------------------------------------ program constants
PoolFirst == 100
lease_duration == 86400
MinSize == 241
DISCOVER == 1
REQUEST == 3

\* ------------------------------------------------------------- value sets
Range == PoolFirst .. (PoolFirst + PoolSize - 1)
Clients == 1 .. NumClients
\* Option<T>: None is the empty sequence, Some(x) the sequence <<x>>.
None == << >>
Some(x) == <<x>>
NoResponse == "NONE"

\* A datagram as the run loop reads it.  size: the byte count returned by
\* recv_from.  op: packet[0] (the BOOTP op field).  mac: packet[28..34].
\* req: the requested address a REQUEST carries (option 50, else ciaddr),
\* None when the datagram carries none.  opt53: the value of the DHCP
\* message-type option (tag 53) of the options area, None when the
\* datagram has none.  The code never reads req nor opt53.
Ops == {DISCOVER, 2, REQUEST}
Datagram(size, op, mac, req, opt53) ==
    [size |-> size, op |-> op, mac |-> mac, req |-> req, opt53 |-> opt53]

\* The datagrams the model draws.  Short of the length check: one byte
\* short for both dispatched message types, two bytes short for one.
\* Long enough, with packet[0] and option 53 agreeing: a DISCOVER from
\* every client, a REQUEST from every client for every address of the
\* range, and one datagram of another message type.  Long enough, as a
\* DHCP client sends them (packet[0] = 1, BOOTREQUEST): a REQUEST
\* (option 53 = 3) for the highest address, and a datagram without
\* option 53.
ShortPackets ==
    {Datagram(MinSize - 1, op, 1, None, Some(op)) : op \in {DISCOVER, REQUEST}}
    \cup {Datagram(MinSize - 2, DISCOVER, 1, None, Some(DISCOVER))}
LongPackets ==
    {Datagram(MinSize, DISCOVER, mac, None, Some(DISCOVER)) : mac \in Clients}
    \cup {Datagram(MinSize, REQUEST, c[1], Some(c[2]), Some(REQUEST)) : c \in Clients \X Range}
    \cup {Datagram(MinSize, op, 1, None, Some(op)) : op \in Ops \ {DISCOVER, REQUEST}}
ClientPackets ==
    {Datagram(MinSize, 1, 1, Some(PoolFirst + PoolSize - 1), Some(REQUEST)),
     Datagram(MinSize, 1, 1, None, None)}
Packets == ShortPackets \cup LongPackets \cup ClientPackets

LeaseEntry(mac, ip, expiry) ==
    [mac_address |-> mac, ip_address |-> ip, lease_expiry |-> expiry]

VARIABLES
    available_pool,   \* Vec<Ipv4Addr>: sequence, last element is the top
    leases,           \* HashMap<[u8; 6], LeaseEntry>: function on its keys
    now,              \* SystemTime::now()
    running,          \* FALSE once run() has returned an io::Error
    last,             \* the last loop iteration: datagram, result, response
    returned          \* history: per client, the last Some(ip) of process_discover
                      \* and the expiry of the lease it belongs to

vars == <<available_pool, leases, now, running, last, returned>>

\* ---------------------------------------------------------------- helpers
\* All orders in which the entries of a set can be visited (HashMap::iter
\* visits the entries in an unspecified order).
Orders(S) ==
    {f \in [1 .. Cardinality(S) -> S] : \A i, j \in DOMAIN f : i # j => f[i] # f[j]}

\* HashMap::remove for a set of keys.
RemoveKeys(m, ks) == [k \in (DOMAIN m) \ ks |-> m[k]]

\* HashMap::insert.
Insert(m, k, v) == [x \in (DOMAIN m) \cup {k} |-> IF x = k THEN v ELSE m[x]]

\* ------------------------------------------------------------------- new
\* Mutant of NewPool: the loop pushes the same address every time.
NewPoolSameAddress == [i \in 1 .. PoolSize |-> PoolFirst]

\* Mutant of NewPool: the loop runs over the inclusive range.
NewPoolInclusive == [i \in 1 .. PoolSize + 1 |-> PoolFirst + i - 1]

NewPool == [i \in 1 .. PoolSize |-> PoolFirst + i - 1]

Init ==
    /\ available_pool = NewPool
    /\ leases = << >>
    /\ now = 0
    /\ running = TRUE
    /\ last = [kind |-> "new"]
    /\ returned = [c \in Clients |-> None]

\* ------------------------------------------------- clean_expired_leases
\* Mutant of Expired: the filter compares with < instead of <=.
ExpiredStrict(ls, t) == {m \in DOMAIN ls : ls[m].lease_expiry < t}

Expired(ls, t) == {m \in DOMAIN ls : ls[m].lease_expiry <= t}

\* Mutant of clean_expired_leases: the address is pushed but the entry is
\* not removed from the table.
clean_keeps_lease(pool, ls, t) ==
    LET exp == Expired(ls, t) IN
    {[pool   |-> pool \o [i \in DOMAIN o |-> ls[o[i]].ip_address],
      leases |-> ls] : o \in Orders(exp)}

\* Mutant of clean_expired_leases: the entry is removed but its address is
\* not pushed back.
clean_drops_address(pool, ls, t) ==
    {[pool |-> pool, leases |-> RemoveKeys(ls, Expired(ls, t))]}

\* Mutant of clean_expired_leases: the address of a removed entry is pushed
\* twice.
clean_pushes_twice(pool, ls, t) ==
    LET exp == Expired(ls, t) IN
    {[pool   |-> pool \o [i \in 1 .. 2 * Len(o) |-> ls[o[(i + 1) \div 2]].ip_address],
      leases |-> RemoveKeys(ls, exp)] : o \in Orders(exp)}

\* The set of possible results [pool, leases] of clean_expired_leases at
\* time t: every expired entry is removed and its address pushed, in the
\* order in which the HashMap iterator produced the entries.
clean_expired_leases(pool, ls, t) ==
    LET exp == Expired(ls, t) IN
    {[pool   |-> pool \o [i \in DOMAIN o |-> ls[o[i]].ip_address],
      leases |-> RemoveKeys(ls, exp)] : o \in Orders(exp)}

\* ------------------------------------------------------ process_discover
\* Mutant of Allocate: no lookup of the client's existing lease.
AllocateNoLookup(c, mac, t) ==
    IF Len(c.pool) > 0
    THEN LET ip == c.pool[Len(c.pool)] IN
         [pool   |-> SubSeq(c.pool, 1, Len(c.pool) - 1),
          leases |-> Insert(c.leases, mac, LeaseEntry(mac, ip, t + lease_duration)),
          ret    |-> Some(ip)]
    ELSE [pool |-> c.pool, leases |-> c.leases, ret |-> None]

\* Mutant of Allocate: last() instead of pop(), the address stays in the pool.
AllocatePeek(c, mac, t) ==
    IF mac \in DOMAIN c.leases
    THEN [pool |-> c.pool, leases |-> c.leases, ret |-> Some(c.leases[mac].ip_address)]
    ELSE IF Len(c.pool) > 0
    THEN LET ip == c.pool[Len(c.pool)] IN
         [pool   |-> c.pool,
          leases |-> Insert(c.leases, mac, LeaseEntry(mac, ip, t + lease_duration)),
          ret    |-> Some(ip)]
    ELSE [pool |-> c.pool, leases |-> c.leases, ret |-> None]

\* Mutant of Allocate: the address is taken from the front of the pool.
AllocateFront(c, mac, t) ==
    IF mac \in DOMAIN c.leases
    THEN [pool |-> c.pool, leases |-> c.leases, ret |-> Some(c.leases[mac].ip_address)]
    ELSE IF Len(c.pool) > 0
    THEN LET ip == c.pool[1] IN
         [pool   |-> Tail(c.pool),
          leases |-> Insert(c.leases, mac, LeaseEntry(mac, ip, t + lease_duration)),
          ret    |-> Some(ip)]
    ELSE [pool |-> c.pool, leases |-> c.leases, ret |-> None]

\* Mutant of Allocate: the popped address is returned but no lease is
\* inserted.
AllocateNoInsert(c, mac, t) ==
    IF mac \in DOMAIN c.leases
    THEN [pool |-> c.pool, leases |-> c.leases, ret |-> Some(c.leases[mac].ip_address)]
    ELSE IF Len(c.pool) > 0
    THEN [pool   |-> SubSeq(c.pool, 1, Len(c.pool) - 1),
          leases |-> c.leases,
          ret    |-> Some(c.pool[Len(c.pool)])]
    ELSE [pool |-> c.pool, leases |-> c.leases, ret |-> None]

\* Mutant of Allocate: an empty pool yields the first address of the range.
AllocateFallback(c, mac, t) ==
    IF mac \in DOMAIN c.leases
    THEN [pool |-> c.pool, leases |-> c.leases, ret |-> Some(c.leases[mac].ip_address)]
    ELSE IF Len(c.pool) > 0
    THEN LET ip == c.pool[Len(c.pool)] IN
         [pool   |-> SubSeq(c.pool, 1, Len(c.pool) - 1),
          leases |-> Insert(c.leases, mac, LeaseEntry(mac, ip, t + lease_duration)),
          ret    |-> Some(ip)]
    ELSE [pool |-> c.pool, leases |-> c.leases, ret |-> Some(PoolFirst)]

\* The rest of process_discover after the sweep produced `c`.
Allocate(c, mac, t) ==
    IF mac \in DOMAIN c.leases /\ c.leases[mac].lease_expiry > t
    THEN [pool |-> c.pool, leases |-> c.leases, ret |-> Some(c.leases[mac].ip_address)]
    ELSE IF Len(c.pool) > 0
    THEN LET ip == c.pool[Len(c.pool)] IN
         [pool   |-> SubSeq(c.pool, 1, Len(c.pool) - 1),
          leases |-> Insert(c.leases, mac, LeaseEntry(mac, ip, t + lease_duration)),
          ret    |-> Some(ip)]
    ELSE [pool |-> c.pool, leases |-> c.leases, ret |-> None]

\* Mutant of process_discover: the call of clean_expired_leases is missing.
process_discover_no_sweep(pool, ls, mac, t) ==
    {Allocate([pool |-> pool, leases |-> ls], mac, t)}

\* The set of possible results [pool, leases, ret] of process_discover at
\* time t.
process_discover(pool, ls, mac, t) ==
    {Allocate(c, mac, t) : c \in clean_expired_leases(pool, ls, t)}

\* -------------------------------------------------------------- the clock
\* The instants the model's clock visits: every multiple of the lease
\* duration and the second after it, up to the bound.
Instants == {(i \div 2) * lease_duration + (i % 2) : i \in 0 .. MaxInstant}

\* Time passes between two datagrams.
Tick(t) ==
    /\ running
    /\ t > now
    /\ now' = t
    /\ last' = [kind |-> "tick"]
    /\ UNCHANGED <<available_pool, leases, running>>

\* --------------------------------------------------------------- run loop
get_dhcp_message_type(packet) == packet.op

get_mac_address(packet) == packet.mac

\* The response buffer of send_offer and send_ack, vec![0u8; 300], read at
\* the fixed offsets: every field is zero and the options area holds no
\* option (only pad bytes), so no message type.
ResponseSize == 300
ZeroBuffer ==
    [size |-> ResponseSize, op |-> 0, xid |-> 0, chaddr |-> 0, yiaddr |-> 0, opt53 |-> None]

\* The bytes send_offer hands to send_to.
send_offer(mac, ip) == ZeroBuffer

\* The bytes send_ack hands to send_to.
send_ack(mac) == ZeroBuffer

\* One iteration of the loop: the datagram, process_discover's result,
\* which of send_offer ("OFFER") and send_ack ("ACK") answered, if any, and
\* the bytes it sent.
Iteration(pkt, ret, resp, wire) ==
    [kind |-> "packet", pkt |-> pkt, ret |-> ret, resp |-> resp, wire |-> wire]

\* recv_from fails: run returns the error.  (An iteration that ends in an
\* io::Error, here or in send_to, is recorded as [kind |-> "error"].)
RecvError ==
    /\ running
    /\ running' = FALSE
    /\ last' = [kind |-> "error"]
    /\ UNCHANGED <<available_pool, leases, now>>

\* size < 241: continue.
Short(pkt) ==
    /\ running
    /\ pkt.size < MinSize
    /\ last' = Iteration(pkt, None, NoResponse, None)
    /\ UNCHANGED <<available_pool, leases, now, running>>

\* message type 1: process_discover, then send_offer on Some(ip).
\* ok: whether send_to succeeded.  The two clock reads of one call (by the
\* sweep, and for the expiry of a new lease) fall in the same instant.
Discover(pkt, ok) ==
    /\ running
    /\ pkt.size >= MinSize
    /\ get_dhcp_message_type(pkt) = DISCOVER
    /\ \E r \in process_discover(available_pool, leases, get_mac_address(pkt), now) :
          /\ available_pool' = r.pool
          /\ leases' = r.leases
          /\ now' = now
          /\ running' = (r.ret = None \/ ok)
          /\ last' = IF r.ret = None THEN Iteration(pkt, None, NoResponse, None)
                      ELSE IF ok THEN Iteration(pkt, r.ret, "OFFER",
                                                Some(send_offer(get_mac_address(pkt), r.ret[1])))
                      ELSE [kind |-> "error"]

\* Mutant of Request: an ACKed REQUEST renews the lease of its client.
RequestRefresh(pkt, ok) ==
    /\ running
    /\ pkt.size >= MinSize
    /\ get_dhcp_message_type(pkt) = REQUEST
    /\ running' = ok
    /\ last' = IF ok THEN Iteration(pkt, None, "ACK", Some(send_ack(get_mac_address(pkt))))
                ELSE [kind |-> "error"]
    /\ leases' = IF get_mac_address(pkt) \in DOMAIN leases
                  THEN [leases EXCEPT ![get_mac_address(pkt)].lease_expiry = now + lease_duration]
                  ELSE leases
    /\ UNCHANGED <<available_pool, now>>

\* message type 3: send_ack.
Request(pkt, ok) ==
    /\ running
    /\ pkt.size >= MinSize
    /\ get_dhcp_message_type(pkt) = REQUEST
    /\ running' = ok
    /\ last' = IF ok THEN Iteration(pkt, None, "ACK", Some(send_ack(get_mac_address(pkt))))
                ELSE [kind |-> "error"]
    /\ UNCHANGED <<available_pool, leases, now>>

\* Mutant of Other: the default arm falls through to send_ack.
OtherSendsAck(pkt) ==
    /\ running
    /\ pkt.size >= MinSize
    /\ get_dhcp_message_type(pkt) \notin {DISCOVER, REQUEST}
    /\ last' = Iteration(pkt, None, "ACK", Some(send_ack(get_mac_address(pkt))))
    /\ UNCHANGED <<available_pool, leases, now, running>>

\* any other message type: continue.
Other(pkt) ==
    /\ running
    /\ pkt.size >= MinSize
    /\ get_dhcp_message_type(pkt) \notin {DISCOVER, REQUEST}
    /\ last' = Iteration(pkt, None, NoResponse, None)
    /\ UNCHANGED <<available_pool, leases, now, running>>

\* History of process_discover's results, kept for the properties that
\* speak of a sequence of calls: `it` is the iteration just made, ls the
\* lease table after it.
Record(h, it, ls) ==
    IF it.kind = "packet" /\ it.ret # None
    THEN [h EXCEPT ![it.pkt.mac] =
             Some([ip |-> it.ret[1], expiry |-> ls[it.pkt.mac].lease_expiry])]
    ELSE h

Next ==
    \/ \E t \in Instants : Tick(t) /\ UNCHANGED returned
    \/ RecvError /\ UNCHANGED returned
    \/ \E pkt \in Packets : Short(pkt) /\ UNCHANGED returned
    \/ \E pkt \in Packets, ok \in BOOLEAN : Discover(pkt, ok) /\ UNCHANGED returned
    \/ \E pkt \in Packets, ok \in BOOLEAN : Request(pkt, ok) /\ UNCHANGED returned
    \/ \E pkt \in Packets : Other(pkt) /\ UNCHANGED returned

Spec == Init /\ [][Next]_vars

\* The lease manager alone: a sequence of process_discover calls and clock
\* steps, with the history of the results.
NextAlloc ==
    \/ \E t \in Instants : Tick(t) /\ UNCHANGED returned
    \/ \E pkt \in Packets : Discover(pkt, TRUE) /\ returned' = Record(returned, last', leases')

SpecAlloc == Init /\ [][NextAlloc]_vars

\* The run loop while the transport never fails: time passes and every
\* datagram that arrives is handled; nothing makes a DISCOVER arrive.  The
\* datagrams are the DISCOVERs of every client and the REQUESTs of one.
LivePackets == {p \in LongPackets : p.op = DISCOVER \/ (p.op = REQUEST /\ p.mac = 1)}

NextLive ==
    \/ \E t \in Instants : Tick(t) /\ UNCHANGED returned
    \/ \E pkt \in LivePackets : Discover(pkt, TRUE) /\ UNCHANGED returned
    \/ \E pkt \in LivePackets : Request(pkt, TRUE) /\ UNCHANGED returned

SpecLive == Init /\ [][NextLive]_vars /\ WF_vars(NextLive)

\* ------------------------------------------------------------ properties
\* The iteration `it` dispatched a DISCOVER (resp. a REQUEST).
IsDiscover(it) ==
    it.kind = "packet" /\ it.pkt.size >= MinSize /\ it.pkt.op = DISCOVER
IsRequest(it) ==
    it.kind = "packet" /\ it.pkt.size >= MinSize /\ it.pkt.op = REQUEST

InPool(pool, a) == \E i \in DOMAIN pool : pool[i] = a
Holders(ls, a) == {c \in DOMAIN ls : ls[c].ip_address = a}
Unexpired(ls, t) == {c \in DOMAIN ls : ls[c].lease_expiry > t}
IsPrefix(p, q) == Len(p) <= Len(q) /\ SubSeq(q, 1, Len(p)) = p

\* C1: in every reachable state no two entries of the lease table
\* reference the same address.
C1_DistinctAddresses ==
    \A c1, c2 \in DOMAIN leases :
        c1 # c2 => leases[c1].ip_address # leases[c2].ip_address

\* The table holds two entries: a lease created after the first leases
\* expired, and a lease that has expired and is not swept yet.
C1_Witness ==
    \E c1, c2 \in DOMAIN leases :
        /\ c1 # c2
        /\ leases[c1].lease_expiry >= 2 * lease_duration
        /\ leases[c2].lease_expiry <= now

\* C2: in every reachable state each address of the configured range is
\* either in the free pool and referenced by no lease, or absent from the
\* free pool and referenced by exactly one lease.
C2_PoolXorLease ==
    \A a \in Range :
        \/ InPool(available_pool, a) /\ Cardinality(Holders(leases, a)) = 0
        \/ ~InPool(available_pool, a) /\ Cardinality(Holders(leases, a)) = 1

\* After a sweep reclaimed at least one address: one address is leased
\* again and another is back in the pool.
C2_Witness ==
    /\ IsDiscover(last)
    /\ now >= lease_duration
    /\ \E a, b \in Range :
          /\ InPool(available_pool, a)
          /\ Cardinality(Holders(leases, b)) = 1

\* C3: a DISCOVER from a client whose lease has not expired returns the
\* address of that lease (the one its first call returned), leaves the
\* lease as it is and pops nothing from the free pool.
C3_Idempotent ==
    [][(/\ IsDiscover(last')
        /\ last'.pkt.mac \in DOMAIN leases
        /\ leases[last'.pkt.mac].lease_expiry > now)
       => (/\ last'.ret = Some(leases[last'.pkt.mac].ip_address)
           /\ leases'[last'.pkt.mac] = leases[last'.pkt.mac]
           /\ IsPrefix(available_pool, available_pool'))]_vars

\* A repeated DISCOVER (the lease is older than this call) answered while
\* another client holds a lease too.
C3_Witness ==
    /\ IsDiscover(last)
    /\ last.ret # None
    /\ last.pkt.mac \in DOMAIN leases
    /\ leases[last.pkt.mac].lease_expiry < now + lease_duration
    /\ leases[last.pkt.mac].lease_expiry > now
    /\ Cardinality(DOMAIN leases) >= 2

\* C4: at most PoolSize leases are unexpired at any time, and a DISCOVER
\* from a client that is not among PoolSize holders of unexpired leases
\* returns None.
C4_AtMostN ==
    [][/\ Cardinality(Unexpired(leases, now)) <= PoolSize
       /\ Cardinality(Unexpired(leases', now')) <= PoolSize
       /\ (/\ IsDiscover(last')
           /\ Cardinality(Unexpired(leases, now)) = PoolSize
           /\ last'.pkt.mac \notin Unexpired(leases, now))
          => last'.ret = None]_vars

\* The pool is exhausted by unexpired leases and a further client's
\* DISCOVER got None.
C4_Witness ==
    /\ IsDiscover(last)
    /\ last.ret = None
    /\ Cardinality(Unexpired(leases, now)) = PoolSize
    /\ last.pkt.mac \notin DOMAIN leases

\* C5 as stated: the addresses returned to distinct clients are pairwise
\* distinct (each client's last returned address taken).
C5_ReturnedDistinct ==
    \A c1, c2 \in Clients :
        (c1 # c2 /\ returned[c1] # None /\ returned[c2] # None)
        => returned[c1][1].ip # returned[c2][1].ip

\* C5 amended: the addresses returned to distinct clients are pairwise
\* distinct as long as the leases they belong to have not reached their
\* expiry.
C5_ReturnedDistinctUnexpired ==
    \A c1, c2 \in Clients :
        (/\ c1 # c2
         /\ returned[c1] # None /\ returned[c1][1].expiry > now
         /\ returned[c2] # None /\ returned[c2][1].expiry > now)
        => returned[c1][1].ip # returned[c2][1].ip

\* Two clients were returned addresses whose leases are unexpired, while
\* a third was returned one of these addresses under a lease since
\* expired.
C5_Witness ==
    \E c1, c2, c3 \in Clients :
        /\ c1 # c2 /\ c1 # c3 /\ c2 # c3
        /\ returned[c1] # None /\ returned[c1][1].expiry > now
        /\ returned[c2] # None /\ returned[c2][1].expiry > now
        /\ returned[c3] # None /\ returned[c3][1].expiry <= now
        /\ returned[c3][1].ip = returned[c1][1].ip

\* C6: a DISCOVER (whose first step is the sweep) leaves no lease in the
\* table whose expiry had passed: such a lease of another client is gone,
\* the caller's own is replaced by a new one; and the address of each
\* such lease is in the free pool, unless this very call popped it for
\* the caller's new lease.
C6_Reclaimed ==
    [][IsDiscover(last') =>
        \A c \in DOMAIN leases :
            leases[c].lease_expiry <= now =>
                /\ c \in DOMAIN leases' =>
                      (c = last'.pkt.mac /\ leases'[c].lease_expiry > now)
                /\ \/ InPool(available_pool', leases[c].ip_address)
                   \/ (/\ last'.ret = Some(leases[c].ip_address)
                       /\ last'.pkt.mac \in DOMAIN leases'
                       /\ leases'[last'.pkt.mac].lease_expiry > now)]_vars

\* An address whose lease expired was returned by process_discover to a
\* different client, whose lease on it is now in the table.
C6_Witness ==
    /\ IsDiscover(last)
    /\ last.ret # None
    /\ last.pkt.mac \in DOMAIN leases
    /\ leases[last.pkt.mac].lease_expiry > now
    /\ \E c \in Clients \ {last.pkt.mac} :
          /\ returned[c] # None
          /\ returned[c][1].expiry <= now
          /\ returned[c][1].ip = last.ret[1]
          /\ c \notin DOMAIN leases

\* C7: a REQUEST for an address other than the one of the client's lease
\* is not answered with an ACK, and leaves the lease table and the free
\* pool unchanged.
C7_MismatchNotAcked ==
    [][(/\ IsRequest(last')
        /\ last'.pkt.mac \in DOMAIN leases
        /\ Some(leases[last'.pkt.mac].ip_address) # last'.pkt.req)
       => (/\ last'.resp # "ACK"
           /\ leases' = leases
           /\ available_pool' = available_pool)]_vars

\* C8: an ACK is sent only to a client that has a lease in the table on
\* the requested address.
C8_AckOnlyOnMatch ==
    (IsRequest(last) /\ last.resp = "ACK")
    => (/\ last.pkt.mac \in DOMAIN leases
        /\ Some(leases[last.pkt.mac].ip_address) = last.pkt.req)

\* C9: after a REQUEST for the address of the client's lease, the expiry
\* of that lease is now + lease_duration.
C9_RequestRefreshesExpiry ==
    (/\ IsRequest(last)
     /\ last.pkt.mac \in DOMAIN leases
     /\ Some(leases[last.pkt.mac].ip_address) = last.pkt.req)
    => leases[last.pkt.mac].lease_expiry = now + lease_duration

MinOf(pool) == CHOOSE a \in {pool[i] : i \in DOMAIN pool} : \A i \in DOMAIN pool : a <= pool[i]

\* C10 as stated: a DISCOVER from a client without a lease, when no lease
\* has expired and the pool is not empty, returns the minimum address of
\* the free pool.
C10_LowestFirst ==
    [][(/\ IsDiscover(last')
        /\ last'.pkt.mac \notin DOMAIN leases
        /\ \A c \in DOMAIN leases : leases[c].lease_expiry > now
        /\ Len(available_pool) > 0)
       => last'.ret = Some(MinOf(available_pool))]_vars

\* C10 amended: a DISCOVER from a client without an unexpired lease
\* returns the top of the free-pool stack as the sweep left it: when no
\* lease has expired, the last element of the pool, which is popped (None
\* when the pool is empty); when leases have expired, the address of one of
\* them.  The first DISCOVER after construction returns the highest
\* address of the range.
C10_TopOfStack ==
    [][IsDiscover(last') =>
        /\ last.kind = "new" => last'.ret = Some(PoolFirst + PoolSize - 1)
        /\ last'.pkt.mac \notin Unexpired(leases, now) =>
             IF \A c \in DOMAIN leases : leases[c].lease_expiry > now
             THEN IF Len(available_pool) > 0
                  THEN /\ last'.ret = Some(available_pool[Len(available_pool)])
                       /\ available_pool' =
                            SubSeq(available_pool, 1, Len(available_pool) - 1)
                  ELSE last'.ret = None
             ELSE \E c \in DOMAIN leases :
                     /\ leases[c].lease_expiry <= now
                     /\ last'.ret = Some(leases[c].ip_address)]_vars

\* The second client's DISCOVER at time 0 was offered the address below
\* the highest one.
C10_Witness ==
    /\ IsDiscover(last)
    /\ now = 0
    /\ Cardinality(DOMAIN leases) = 2
    /\ last.ret = Some(PoolFirst + PoolSize - 2)
    /\ last.pkt.mac \in DOMAIN leases
    /\ leases[last.pkt.mac].ip_address = PoolFirst + PoolSize - 2

\* C11: a datagram whose message type (option 53) is neither DISCOVER nor
\* REQUEST, or which fails decode validation (shorter than 240 bytes, or
\* without a message-type option), gets no response and leaves the free
\* pool and the lease table as they were.
C11_IgnoredUnchanged ==
    [][(/\ last'.kind = "packet"
        /\ \/ last'.pkt.size < 240
           \/ last'.pkt.opt53 \notin {Some(DISCOVER), Some(REQUEST)})
       => (/\ last'.resp = NoResponse
           /\ available_pool' = available_pool
           /\ leases' = leases)]_vars

\* C12: an iteration that dispatched a DISCOVER sent an OFFER exactly when
\* process_discover returned an address; when the pool was exhausted (empty,
\* no expired lease, no lease of this client) nothing was sent, the client
\* has no lease, the pool and the table are unchanged and the loop goes on.
C12_OfferIffAllocated ==
    [][IsDiscover(last') =>
        /\ (last'.resp = "OFFER") <=> (last'.ret # None)
        /\ last'.resp \in {"OFFER", NoResponse}
        /\ (/\ Len(available_pool) = 0
            /\ \A c \in DOMAIN leases : leases[c].lease_expiry > now
            /\ last'.pkt.mac \notin DOMAIN leases)
           => (/\ last'.resp = NoResponse
               /\ last'.pkt.mac \notin DOMAIN leases'
               /\ leases' = leases
               /\ available_pool' = available_pool
               /\ running')]_vars

\* A DISCOVER was dropped on an exhausted pool, and the loop is running.
C12_Witness ==
    /\ IsDiscover(last)
    /\ last.ret = None
    /\ last.resp = NoResponse
    /\ Len(available_pool) = 0
    /\ last.pkt.mac \notin DOMAIN leases
    /\ running

\* C13: a datagram that passes the length check is dispatched on its
\* option 53: one with option 53 = 3 is answered by send_ack, one with
\* option 53 = 1 is not, and one without option 53 gets no response.
C13_DispatchOnOption53 ==
    (last.kind = "packet" /\ last.pkt.size >= MinSize) =>
        /\ last.pkt.opt53 = Some(REQUEST) => last.resp = "ACK"
        /\ last.pkt.opt53 = Some(DISCOVER) => last.resp # "ACK"
        /\ last.pkt.opt53 = None => last.resp = NoResponse

\* C14: a datagram shorter than 240 bytes gets no response, and a datagram
\* of 240 bytes or more is not dropped for its length: one that the
\* dispatcher takes for a REQUEST is answered by send_ack.
C14_BoundaryAt240 ==
    last.kind = "packet" =>
        /\ last.pkt.size < 240 => last.resp = NoResponse
        /\ (last.pkt.size >= 240 /\ last.pkt.op = REQUEST) => last.resp = "ACK"

\* C15: the bytes of a response carry the hardware address of the request
\* and decode to the message type that was encoded: OFFER (2) for the
\* answer of send_offer, ACK (5) for the answer of send_ack.
C15_RoundTrip ==
    (last.kind = "packet" /\ last.resp # NoResponse) =>
        /\ last.wire[1].chaddr = last.pkt.mac
        /\ last.resp = "OFFER" => last.wire[1].opt53 = Some(2)
        /\ last.resp = "ACK" => last.wire[1].opt53 = Some(5)

\* Address a is referenced by a lease whose expiry has passed.
ExpiredHeld(a) ==
    \E c \in DOMAIN leases : leases[c].ip_address = a /\ leases[c].lease_expiry <= now
\* Address a is in the free pool, or leased again under an unexpired lease.
Reusable(a) ==
    \/ InPool(available_pool, a)
    \/ \E c \in DOMAIN leases : leases[c].ip_address = a /\ leases[c].lease_expiry > now

\* C16 as stated: whenever a lease's expiry has passed, its address
\* eventually is reusable (back in the free pool, or leased anew).
C16_EventuallyReusable ==
    \A a \in Range : ExpiredHeld(a) ~> Reusable(a)

\* C16 amended: whenever a lease's expiry has passed, its address is
\* reusable once a DISCOVER has been processed after the expiry; in an
\* execution in which no DISCOVER is processed from then on, it need not
\* ever be.
C16_ReusableAfterDiscover ==
    \A a \in Range : ExpiredHeld(a) ~> (Reusable(a) \/ [](~IsDiscover(last)))

\* A DISCOVER processed after an expiry: the highest address, which is
\* the first to be leased, is back in the pool, while the client of this
\* DISCOVER got a new lease and no lease in the table has expired.
C16_Witness ==
    /\ IsDiscover(last)
    /\ now >= lease_duration
    /\ last.pkt.mac \in DOMAIN leases
    /\ leases[last.pkt.mac].lease_expiry = now + lease_duration
    /\ InPool(available_pool, PoolFirst + PoolSize - 1)
    /\ \A a \in Range : Reusable(a)

\* The free pool as the sweep of the DISCOVER step just taken left it: the
\* pool after the step, with the address the step popped put back.
Swept(pool, ls, it, t) ==
    IF it.ret # None /\ it.pkt.mac \notin Unexpired(ls, t)
    THEN Append(pool, it.ret[1])
    ELSE pool

\* C17: the sweep of a DISCOVER at time now removes exactly the leases with
\* expiry <= now (the caller may get a new lease in the same call) and
\* pushes the address of each removed lease exactly once; every lease with
\* expiry > now stays as it is, and the addresses that were in the pool
\* stay where they were.
C17_SweepExact ==
    [][IsDiscover(last') =>
        LET exp == {c \in DOMAIN leases : leases[c].lease_expiry <= now}
            q   == Swept(available_pool', leases, last', now)
            n   == Len(available_pool)
        IN  /\ \A c \in exp :
                  /\ c \in DOMAIN leases' =>
                        (c = last'.pkt.mac /\ leases'[c].lease_expiry = now + lease_duration)
                  /\ Cardinality({i \in DOMAIN q : i > n /\ q[i] = leases[c].ip_address}) = 1
            /\ \A c \in DOMAIN leases \ exp :
                  c \in DOMAIN leases' /\ leases'[c] = leases[c]
            /\ Len(q) = n + Cardinality(exp)
            /\ IsPrefix(available_pool, q)]_vars

\* A sweep at the very instant a lease expires, with another lease in the
\* table that has not expired: the expired lease is gone, its address is
\* on top of the pool, and the other lease is still there.
C17_Witness ==
    /\ IsDiscover(last)
    /\ now = lease_duration
    /\ last.pkt.mac \in DOMAIN leases
    /\ leases[last.pkt.mac].lease_expiry = lease_duration + 1
    /\ leases[last.pkt.mac].ip_address = PoolFirst + PoolSize - 2
    /\ Cardinality(DOMAIN leases) = 1
    /\ Len(available_pool) = PoolSize - 1
    /\ available_pool[Len(available_pool)] = PoolFirst + PoolSize - 1

\* C18: an entry of the lease table is written only by a DISCOVER of its
\* client that finds no entry or an expired one, and gets the expiry
\* now + lease_duration then; no other DISCOVER and no REQUEST changes it,
\* and the first DISCOVER processed when its expiry has passed removes it.
C18_ExpiryFixedAtCreation ==
    [][/\ \A c \in DOMAIN leases' :
            (c \notin DOMAIN leases \/ leases'[c] # leases[c]) =>
                /\ \/ IsDiscover(last') /\ last'.pkt.mac = c
                   \/ last'.kind = "error"
                /\ c \in DOMAIN leases => leases[c].lease_expiry <= now
                /\ leases'[c].lease_expiry = now + lease_duration
       /\ \A c \in DOMAIN leases :
            (IsDiscover(last') /\ leases[c].lease_expiry <= now) =>
                (c \in DOMAIN leases' => leases'[c].lease_expiry = now + lease_duration)]_vars

\* A REQUEST of a client was ACKed some time after its lease was created:
\* the lease still ends lease_duration after its creation.
C18_Witness ==
    /\ IsRequest(last)
    /\ last.resp = "ACK"
    /\ last.pkt.mac \in DOMAIN leases
    /\ now > 0
    /\ leases[last.pkt.mac].lease_expiry > now
    /\ leases[last.pkt.mac].lease_expiry < now + lease_duration

\* C19: when the run loop has just sent an OFFER of address A to a client,
\* the lease table holds an entry under that client's hardware address
\* with ip_address A and mac_address equal to the key, A is not in the
\* free pool, and no other client's entry references A.
C19_OfferBackedByLease ==
    (last.kind = "packet" /\ last.resp = "OFFER") =>
        LET mac == last.pkt.mac
            A   == last.ret[1]
        IN  /\ mac \in DOMAIN leases
            /\ leases[mac].ip_address = A
            /\ leases[mac].mac_address = mac
            /\ ~InPool(available_pool, A)
            /\ Holders(leases, A) = {mac}

\* An OFFER of an address that another client held before, sent while a
\* third client's lease is in the table as well.
C19_Witness ==
    /\ last.kind = "packet"
    /\ last.resp = "OFFER"
    /\ now >= lease_duration
    /\ last.ret = Some(PoolFirst + PoolSize - 1)
    /\ leases[last.pkt.mac].lease_expiry = now + lease_duration
    /\ Cardinality(DOMAIN leases) = 2

\* C20: in every reachable state the free pool holds no address twice and
\* no address outside the configured range, and the length of the pool
\* plus the number of leases is the size of the range.
C20_PoolWellFormed ==
    /\ \A i, j \in DOMAIN available_pool :
          available_pool[i] = available_pool[j] => i = j
    /\ \A i \in DOMAIN available_pool : available_pool[i] \in Range
    /\ Len(available_pool) + Cardinality(DOMAIN leases) = PoolSize

\* Every address of the range was leased, all the leases were swept by one
\* DISCOVER, which took one of the addresses again: the pool is in a
\* different order than after construction.
C20_Witness ==
    /\ IsDiscover(last)
    /\ Len(available_pool) = PoolSize - 1
    /\ available_pool[1] # PoolFirst
    /\ \E c \in DOMAIN leases : leases[c].lease_expiry >= 2 * lease_duration

====
